---- MODULE Spec2Model ----
(***************************************************************************)
(* MapaRelavesCL (src/app.py): a Streamlit page that geocodes an address,  *)
(* resolves the Chilean region containing it, ranks the tailings deposits  *)
(* ("relaves") of that region by distance, and renders tables and maps.    *)
(*                                                                         *)
(* Geometry is modelled on an integer grid.  A point is [x, y]; in WGS84   *)
(* x is the longitude and y the latitude.  A region polygon is an          *)
(* axis-aligned rectangle [xmin, xmax, ymin, ymax].  The field `distancia` *)
(* holds the SQUARE of the Euclidean distance in metres: the code sorts    *)
(* and compares distances only, and squaring preserves order and ties      *)
(* (distancia_km, a display column, is left out).                          *)
(*                                                                         *)
(* find_region_for_point and calculate_distances_to_relaves are memoized   *)
(* by st.cache_data on (lat, lon) and (lat, lon, region_name).  The frames *)
(* they read are loaded once and never change, so a stored value is a      *)
(* value the body can return for those arguments; the model runs the body  *)
(* at every call.  The memo of geocode, whose body reads the network, is   *)
(* modelled with its ttl.                                                  *)
(***************************************************************************)
EXTENDS Integers, Sequences, FiniteSets, TLC

VARIABLES
    regiones_gdf,          \* region rows (Regiones_Chile), fixed after load
    relaves_gdf,           \* deposit rows (Relaves_Chile), fixed after load
    geocode_cache,         \* st.cache_data(ttl=3600) store of geocode
    memo_window,           \* history: per address, the first search of the current window
    address,               \* st.text_input value of the last run
    results,               \* value of geocode(address) in the last run
    net_calls,             \* outbound requests.get calls made by the last run
    response,              \* what requests.get did in the last run, NoCall if not called
    run_status,            \* "ok", or "exception" when the script run was aborted
    invoked,               \* pipeline stages called by the last run
    shown,                 \* elements rendered by the last run
    region_encontrada,     \* index of the row find_region_for_point returned, 0 for None
    relaves_cercanos,      \* value of calculate_distances_to_relaves
    relave_cercano_wgs84,  \* index (national) of the row the ID lookup selected, 0 if none
    repeat_of,             \* history: the window record a repeated search fell into
    phase                  \* "page" for the app; "input"/"done" for the function harnesses

vars == << regiones_gdf, relaves_gdf, geocode_cache, memo_window, address, results,
           net_calls, response, run_status, invoked, shown, region_encontrada,
           relaves_cercanos, relave_cercano_wgs84, repeat_of, phase >>

(***************************************************************************)
(* Bounds of the model.                                                    *)
(***************************************************************************)
MaxRelaves == 2        \* deposits in the national collection of the page model
MaxRegiones == 2       \* rows of the region collection in the resolver harness
MaxRanked == 11        \* deposits in the collection of the ranker harness
TickSeconds == 1800    \* granularity of the clock

(***************************************************************************)
(* Program constants.                                                      *)
(***************************************************************************)
TTL == 3600            \* @st.cache_data(ttl=3600) on geocode
HeadN == 10            \* relaves_copy.head(10)

None == << >>

ROMANO_A_REGION ==
    [ c \in {"XV", "I", "II", "III", "IV", "V", "RM", "VI", "VII", "XVI", "VIII",
             "IX", "XIV", "X", "XI", "XII"} |->
        CASE c = "XV"   -> "Region de Arica y Parinacota"
          [] c = "I"    -> "Region de Tarapaca"
          [] c = "II"   -> "Region de Antofagasta"
          [] c = "III"  -> "Region de Atacama"
          [] c = "IV"   -> "Region de Coquimbo"
          [] c = "V"    -> "Region de Valparaiso"
          [] c = "RM"   -> "Region Metropolitana de Santiago"
          [] c = "VI"   -> "Region del Libertador Bernardo O'Higgins"
          [] c = "VII"  -> "Region del Maule"
          [] c = "XVI"  -> "Region de Nuble"
          [] c = "VIII" -> "Region del Bio-Bio"
          [] c = "IX"   -> "Region de La Araucania"
          [] c = "XIV"  -> "Region de Los Rios"
          [] c = "X"    -> "Region de Los Lagos"
          [] c = "XI"   -> "Region de Aysen del Gral. Ibanez del Campo"
          [] c = "XII"  -> "Region de Magallanes y Antartica Chilena" ]

\* Series.map(dict): a code that is no key of the dictionary maps to NaN.
MapRegion(code) ==
    IF code \in DOMAIN ROMANO_A_REGION THEN ROMANO_A_REGION[code] ELSE "NaN"

\* Elementwise == of a column against a value: NaN equals nothing.
ColumnEq(a, b) == a # "NaN" /\ b # "NaN" /\ a = b

(***************************************************************************)
(* Geometry.                                                               *)
(***************************************************************************)
\* shapely Point(x, y)
Point(x, y) == [x |-> x, y |-> y]

\* GeoDataFrame.to_crs: EPSG:4326 keeps geographic coordinates; EPSG:32719
\* (UTM 19S) gives metres, here an affine map with different scales per axis.
to_crs(p, epsg) ==
    IF epsg = 32719 THEN [x |-> 500000 + 900 * p.x, y |-> 1000 * p.y] ELSE p

\* shapely within: the point lies in the interior of the polygon (a point on
\* the boundary is not within).
within(p, g) == g.xmin < p.x /\ p.x < g.xmax /\ g.ymin < p.y /\ p.y < g.ymax

\* GeoSeries.distance to a point, squared (see the module comment).
distance(g, p) == (g.x - p.x) * (g.x - p.x) + (g.y - p.y) * (g.y - p.y)

(***************************************************************************)
(* Geocoder client (geocode, lines 69-87).                                 *)
(***************************************************************************)
\* What requests.get can do: raise (no connection, DNS failure, ...), or
\* return a response with a status code and, for 200, a payload whose
\* 'features' list holds candidates with coordinates [lon, lat].
Responses ==
    { [kind |-> "ConnectionError", status_code |-> 0, features |-> << >>],
      [kind |-> "response", status_code |-> 500, features |-> << >>],
      [kind |-> "response", status_code |-> 200, features |-> << >>],
      [kind |-> "response", status_code |-> 200, features |-> << <<1, 1>> >>],
      [kind |-> "response", status_code |-> 200, features |-> << <<3, 1>> >>],
      [kind |-> "response", status_code |-> 200, features |-> << <<5, 1>>, <<1, 1>> >>] }

\* The body of geocode on one response of the service: the value returned,
\* or the exception of requests.get, which the body does not catch.
geocode_body(resp) ==
    IF resp.kind = "ConnectionError"
    THEN [raised |-> TRUE, value |-> None]
    ELSE IF resp.status_code = 200 /\ resp.features # << >>
         THEN LET lon == resp.features[1][1]
                  lat == resp.features[1][2]
              IN  [raised |-> FALSE, value |-> <<lat, lon>>]
         ELSE [raised |-> FALSE, value |-> None]

NoCall == [kind |-> "none", status_code |-> 0, features |-> << >>]

NoEntry == [stored |-> FALSE, age |-> 0, value |-> None]

\* A cache entry is served while its age is below the ttl.
CacheHit(query) == geocode_cache[query].stored /\ geocode_cache[query].age < TTL

\* geocode as decorated by st.cache_data: a stored value is returned without
\* running the body; otherwise the body runs (one requests.get), and what it
\* returns is stored.  An exception stores nothing.
geocode(query, resp) ==
    IF CacheHit(query)
    THEN [raised |-> FALSE, value |-> geocode_cache[query].value, calls |-> 0,
          cache |-> geocode_cache]
    ELSE LET r == geocode_body(resp)
         IN  [raised |-> r.raised, value |-> r.value, calls |-> 1,
              cache |-> IF r.raised THEN geocode_cache
                        ELSE [geocode_cache EXCEPT
                                ![query] = [stored |-> TRUE, age |-> 0, value |-> r.value]]]

(***************************************************************************)
(* Region resolver (find_region_for_point, lines 114-123).                 *)
(***************************************************************************)
RECURSIVE iterrows_within(_, _, _)
iterrows_within(punto, regs, i) ==
    IF i > Len(regs) THEN 0
    ELSE IF within(punto, regs[i].geometry) THEN i
    ELSE iterrows_within(punto, regs, i + 1)

\* Variant of find_region_for_point: the point built as Point(lat, lon).
find_region_for_point_swapped(lat, lon, regs) ==
    LET punto_wgs84 == Point(lat, lon)
    IN  iterrows_within(punto_wgs84, regs, 1)

\* The index of the row returned, 0 for None.
find_region_for_point(lat, lon, regs) ==
    LET punto_wgs84 == Point(lon, lat)
    IN  iterrows_within(punto_wgs84, regs, 1)

(***************************************************************************)
(* Nearest-deposit ranker (calculate_distances_to_relaves, lines 125-143). *)
(***************************************************************************)
Min(S) == CHOOSE m \in S : \A n \in S : m <= n

\* DataFrame.sort_values('distancia'): ascending, kind='quicksort' (the
\* default), which is not a stable sort: rows of equal distance come out in
\* an order the library does not fix.  The set of the orders it can return.
RECURSIVE sort_from(_, _)
sort_from(df, left) ==
    IF left = {} THEN { << >> }
    ELSE LET m == Min({ df[j].distancia : j \in left })
         IN  UNION { { << df[i] >> \o t : t \in sort_from(df, left \ {i}) } :
                     i \in { j \in left : df[j].distancia = m } }

\* Variant of sort_values: the frame is returned in its source order.
sort_values_unsorted(df) == { df }

sort_values(df) == sort_from(df, DOMAIN df)

\* Variant of head: one row fewer than asked for.
head_short(df, n) == SubSeq(df, 1, (IF Len(df) < n THEN Len(df) ELSE n) - 1)

\* Variant of head: no cut at all.
head_all(df, n) == df

\* DataFrame.head(n)
head(df, n) == SubSeq(df, 1, IF Len(df) < n THEN Len(df) ELSE n)

\* The values the function can return (one per tie order of the sort).
calculate_distances_to_relaves(lat, lon, relaves_region_utm, region_name) ==
    LET punto_utm == to_crs(Point(lon, lat), 32719)
        relaves_copy ==
            [ i \in DOMAIN relaves_region_utm |->
                [ idx       |-> relaves_region_utm[i].idx,
                  ID        |-> relaves_region_utm[i].ID,
                  Region    |-> relaves_region_utm[i].Region,
                  geometry  |-> relaves_region_utm[i].geometry,
                  distancia |-> distance(relaves_region_utm[i].geometry, punto_utm) ] ]
    IN  { head(s, HeadN) : s \in sort_values(relaves_copy) }

(***************************************************************************)
(* Reference data (load_data, get_crs_transformed, initialize_data, and    *)
(* the 'Region' column of lines 220-221).                                  *)
(***************************************************************************)
\* A deposit frame in the given coordinate system.  idx is the row label,
\* which boolean filtering and sorting keep.
get_crs_transformed(gdf, epsg) ==
    [ i \in DOMAIN gdf |->
        [ idx      |-> i,
          ID       |-> gdf[i].ID,
          Region   |-> MapRegion(gdf[i].REGION),
          geometry |-> to_crs(gdf[i].geometry, epsg) ] ]

relaves_gdf_utm == get_crs_transformed(relaves_gdf, 32719)
relaves_gdf_wgs84 == get_crs_transformed(relaves_gdf, 4326)
regiones_gdf_wgs84 == regiones_gdf

\* df[df['Region'] == name]
FilterRegion(df, name) == SelectSeq(df, LAMBDA r : ColumnEq(r.Region, name))

\* df[df['ID'] == id].iloc[0]: the first row of the frame with that ID
\* (its label), 0 when no row has it.
FirstWithID(df, id) ==
    IF \E i \in DOMAIN df : df[i].ID = id
    THEN df[Min({ i \in DOMAIN df : df[i].ID = id })].idx
    ELSE 0

(***************************************************************************)
(* The page script (lines 223-407).  Each section gives the set of         *)
(* outcomes of one run: what was called, what was rendered, and whether    *)
(* the run was aborted by an uncaught exception.                           *)
(***************************************************************************)
Outcome(status, inv, sh, reg, cerc, mark) ==
    [ run_status |-> status, invoked |-> inv, shown |-> sh,
      region_encontrada |-> reg, relaves_cercanos |-> cerc,
      relave_cercano_wgs84 |-> mark ]

\* Lines 238-378, once find_region_for_point has returned row `reg` (0: None).
region_branch(lat, lon, reg) ==
    IF reg # 0 /\ "Region" \in DOMAIN regiones_gdf_wgs84[reg]
    THEN LET name == regiones_gdf_wgs84[reg].Region
             relaves_region_utm == FilterRegion(relaves_gdf_utm, name)
             relaves_region_wgs84 == FilterRegion(relaves_gdf_wgs84, name)
             numero_relaves_region == Len(relaves_region_wgs84)
             numero_relaves_total == Len(relaves_gdf_wgs84)
             seen == {"ubicacion_encontrada", "subheader_region"}
             called == {"geocode", "find_region_for_point"}
         IN  IF numero_relaves_total = 0
             THEN \* line 251 divides by the national count before line 253 tests
                  \* the regional one: ZeroDivisionError
                  { Outcome("exception", called, seen \cup {"exception"}, reg, << >>, 0) }
             ELSE IF numero_relaves_region = 0
             THEN { Outcome("ok", called, seen \cup {"warning_sin_relaves"}, reg, << >>, 0) }
             ELSE { Outcome("ok",
                            called \cup {"calculate_distances_to_relaves"},
                            seen \cup {"estadistica", "tabla_cercanos", "detalle_cercano",
                                       "mapa_ubicacion"}
                                 \cup (IF Len(c) > 1 THEN {"marcadores_region"} ELSE {}),
                            reg, c, FirstWithID(relaves_gdf_wgs84, c[1].ID)) :
                    c \in calculate_distances_to_relaves(lat, lon, relaves_region_utm, name) }
    ELSE { Outcome("ok", {"geocode", "find_region_for_point"},
                   {"ubicacion_encontrada", "warning_region"}, reg, << >>, 0) }

\* Lines 232-378: the branch of a truthy geocode result.
location_branch(res) ==
    LET lat == res[1]
        lon == res[2]
    IN  region_branch(lat, lon, find_region_for_point(lat, lon, regiones_gdf_wgs84))

\* Variant of search_section: the two else branches exchanged, so that a
\* missing location goes on to the region stage and reports a missing region.
search_section_else_swapped(g) ==
    IF g.raised
    THEN { Outcome("exception", {"geocode"}, {"exception"}, 0, << >>, 0) }
    ELSE IF g.value # None
    THEN location_branch(g.value)
    ELSE { Outcome("ok", {"geocode", "find_region_for_point"}, {"warning_region"},
                   0, << >>, 0) }

\* Lines 227-380: the search, for a non-empty address; g is what the call of
\* geocode did.
search_section(g) ==
    IF g.raised
    THEN { Outcome("exception", {"geocode"}, {"exception"}, 0, << >>, 0) }
    ELSE IF g.value # None
    THEN location_branch(g.value)
    ELSE { Outcome("ok", {"geocode"}, {"error_ubicacion"}, 0, << >>, 0) }

\* Variant of overview_section: rendered whatever the input.
overview_always(addr) == {"datos_generales", "mapa_general"}

\* Lines 382-407: the general figures and the overview map of all deposits
\* (create_full_map).
overview_section(addr) ==
    IF addr = "" THEN {"datos_generales", "mapa_general"} ELSE {}

\* One run of the script with the given input and geocode call.  An aborted
\* run renders nothing after the exception.
page(addr, g) ==
    LET searched == IF addr # "" THEN search_section(g)
                    ELSE { Outcome("ok", {}, {}, 0, << >>, 0) }
    IN  { IF o.run_status = "ok"
          THEN [o EXCEPT !.shown = @ \cup overview_section(addr) \cup {"fuente_de_datos"}]
          ELSE o : o \in searched }

(***************************************************************************)
(* The page as a state machine: every interaction reruns the script.       *)
(***************************************************************************)
Queries == {"Arturo Prat 100, Iquique"}
Addresses == {""} \cup Queries

\* The region polygons of the page model: two regions sharing the border x = 2.
REGIONES ==
    << [Region |-> "Region de Tarapaca",
        geometry |-> [xmin |-> 0, xmax |-> 2, ymin |-> 0, ymax |-> 2]],
       [Region |-> "Region de Antofagasta",
        geometry |-> [xmin |-> 2, xmax |-> 4, ymin |-> 0, ymax |-> 2]] >>

\* The deposit rows the national collection is drawn from.
RelavePool ==
    [ ID : {101, 102}, REGION : {"I", "II"}, geometry : {Point(0, 1), Point(2, 1)} ]

SeqsUpTo(S, n) == UNION { [1..k -> S] : k \in 0..n }

NoWindow == [open |-> FALSE, age |-> 0, raised |-> FALSE, value |-> None]
NoRepeat == [repeat |-> FALSE, raised |-> FALSE, value |-> None]

\* Whether a search of this address has opened a window that has not elapsed.
WindowOpen(q) == memo_window[q].open /\ memo_window[q].age < TTL

Defaults ==
    /\ geocode_cache = [q \in Queries |-> NoEntry]
    /\ memo_window = [q \in Queries |-> NoWindow]
    /\ address = ""
    /\ net_calls = 0
    /\ response = NoCall
    /\ run_status = "ok"
    /\ invoked = {}
    /\ shown = {}
    /\ region_encontrada = 0
    /\ relaves_cercanos = << >>
    /\ relave_cercano_wgs84 = 0
    /\ repeat_of = NoRepeat

Init ==
    /\ phase = "page"
    /\ regiones_gdf = REGIONES
    /\ relaves_gdf \in SeqsUpTo(RelavePool, MaxRelaves)
    /\ results = None
    /\ Defaults

\* The user submits `addr` (or loads the page with the input empty); the
\* geocoding service, if called, answers `resp`.
RunPage(addr, resp) ==
    /\ phase = "page"
    /\ LET g == IF addr = ""
                THEN [raised |-> FALSE, value |-> None, calls |-> 0, cache |-> geocode_cache]
                ELSE geocode(addr, resp)
       IN  /\ \E o \in page(addr, g) :
                /\ run_status' = o.run_status
                /\ invoked' = o.invoked
                /\ shown' = o.shown
                /\ region_encontrada' = o.region_encontrada
                /\ relaves_cercanos' = o.relaves_cercanos
                /\ relave_cercano_wgs84' = o.relave_cercano_wgs84
           /\ address' = addr
           /\ results' = g.value
           /\ net_calls' = g.calls
           /\ response' = IF g.calls = 0 THEN NoCall ELSE resp
           /\ geocode_cache' = g.cache
           /\ memo_window' =
                IF addr # "" /\ ~WindowOpen(addr)
                THEN [memo_window EXCEPT ![addr] =
                        [open |-> TRUE, age |-> 0, raised |-> g.raised, value |-> g.value]]
                ELSE memo_window
           /\ repeat_of' =
                IF addr # "" /\ WindowOpen(addr)
                THEN [repeat |-> TRUE, raised |-> memo_window[addr].raised,
                      value |-> memo_window[addr].value]
                ELSE NoRepeat
    /\ UNCHANGED << regiones_gdf, relaves_gdf, phase >>

\* Time passes between two runs; ages stop at the ttl, where an entry is no
\* longer served.
Older(age) == IF age + TickSeconds < TTL THEN age + TickSeconds ELSE TTL

Tick ==
    /\ phase = "page"
    /\ geocode_cache' =
         [q \in Queries |-> IF geocode_cache[q].stored
                            THEN [geocode_cache[q] EXCEPT !.age = Older(@)]
                            ELSE geocode_cache[q]]
    /\ memo_window' =
         [q \in Queries |-> IF memo_window[q].open
                            THEN [memo_window[q] EXCEPT !.age = Older(@)]
                            ELSE memo_window[q]]
    /\ UNCHANGED << regiones_gdf, relaves_gdf, address, results, net_calls, response, run_status,
                    invoked, shown, region_encontrada, relaves_cercanos,
                    relave_cercano_wgs84, repeat_of, phase >>

Next ==
    \/ \E addr \in Addresses, resp \in Responses : RunPage(addr, resp)
    \/ Tick

Spec == Init /\ [][Next]_vars

(***************************************************************************)
(* find_region_for_point on its own: a point and a region collection are   *)
(* drawn, and the function is applied.                                     *)
(***************************************************************************)
RegionPool ==
    { [Region |-> "Region de Tarapaca",
       geometry |-> [xmin |-> 0, xmax |-> 2, ymin |-> 0, ymax |-> 2]],
      [Region |-> "Region de Antofagasta",
       geometry |-> [xmin |-> 2, xmax |-> 4, ymin |-> 0, ymax |-> 2]],
      [Region |-> "Region de Atacama",
       geometry |-> [xmin |-> 1, xmax |-> 3, ymin |-> 0, ymax |-> 2]] }

InitRegion ==
    /\ phase = "input"
    /\ regiones_gdf \in SeqsUpTo(RegionPool, MaxRegiones)
    /\ relaves_gdf = << >>
    /\ results \in { <<lat, lon>> : lat \in 0..2, lon \in 0..5 }
    /\ Defaults

ApplyRegion ==
    /\ phase = "input"
    /\ region_encontrada' = find_region_for_point(results[1], results[2], regiones_gdf_wgs84)
    /\ invoked' = {"find_region_for_point"}
    /\ phase' = "done"
    /\ UNCHANGED << regiones_gdf, relaves_gdf, geocode_cache, memo_window, address,
                    results, net_calls, response, run_status, shown, relaves_cercanos,
                    relave_cercano_wgs84, repeat_of >>

NextRegion == ApplyRegion

SpecRegion == InitRegion /\ [][NextRegion]_vars

(***************************************************************************)
(* calculate_distances_to_relaves on its own: a query point and a deposit  *)
(* collection of one region are drawn, and the function is applied.  The   *)
(* collections are the arithmetic progressions of positions along the line *)
(* y = 0, modulo the width of the line: they come unsorted, with deposits  *)
(* at the same place and with pairs at the same distance on both sides of  *)
(* the query point.                                                        *)
(***************************************************************************)
RankWidth == MaxRanked - 1
Strides == {1, 3}

Progression(n, o, s) ==
    [ i \in 1..n |-> [ID |-> 100 + i, REGION |-> "I",
                      geometry |-> Point((o + i * s) % RankWidth, 0)] ]

InitRank ==
    /\ phase = "input"
    /\ regiones_gdf = REGIONES
    /\ relaves_gdf \in { Progression(n, o, s) :
                           n \in 0..MaxRanked, o \in 0..(RankWidth - 1), s \in Strides }
    /\ results \in { <<0, 0>>, <<0, RankWidth \div 2>> }
    /\ Defaults

ApplyRank ==
    /\ phase = "input"
    /\ \E c \in calculate_distances_to_relaves(results[1], results[2], relaves_gdf_utm,
                                                MapRegion("I")) :
          relaves_cercanos' = c
    /\ invoked' = {"calculate_distances_to_relaves"}
    /\ phase' = "done"
    /\ UNCHANGED << regiones_gdf, relaves_gdf, geocode_cache, memo_window, address,
                    results, net_calls, response, run_status, shown, region_encontrada,
                    relave_cercano_wgs84, repeat_of >>

NextRank == ApplyRank

SpecRank == InitRank /\ [][NextRank]_vars

(***************************************************************************)
(* Vocabulary of the properties.                                           *)
(***************************************************************************)
Searched == phase = "page" /\ address # ""
Ran == phase = "page" /\ shown # {}

NetworkFailure == response.kind = "ConnectionError"
NonSuccess == response.kind = "response" /\ response.status_code # 200
NoCandidates ==
    response.kind = "response" /\ response.status_code = 200 /\ response.features = << >>

RegionStages == {"find_region_for_point", "calculate_distances_to_relaves"}

\* The open rectangle, and the closed one.
InInterior(lat, lon, g) == g.xmin < lon /\ lon < g.xmax /\ g.ymin < lat /\ lat < g.ymax
InClosure(lat, lon, g) == g.xmin <= lon /\ lon <= g.xmax /\ g.ymin <= lat /\ lat <= g.ymax

InteriorsDisjoint(a, b) ==
    a.xmax <= b.xmin \/ b.xmax <= a.xmin \/ a.ymax <= b.ymin \/ b.ymax <= a.ymin

NonOverlapping(regs) ==
    \A i, j \in DOMAIN regs : i # j => InteriorsDisjoint(regs[i].geometry, regs[j].geometry)

\* Squared distance in metres from the query point to row i of the collection.
DistTo(i) ==
    distance(to_crs(relaves_gdf[i].geometry, 32719),
             to_crs(Point(results[2], results[1]), 32719))

Equidistant(i, j) == i # j /\ DistTo(i) = DistTo(j)

\* Where row i of the collection stands in the output, 0 if it is not there.
PosOf(i) ==
    IF \E k \in DOMAIN relaves_cercanos : relaves_cercanos[k].idx = i
    THEN CHOOSE k \in DOMAIN relaves_cercanos : relaves_cercanos[k].idx = i
    ELSE 0

Ranked == phase = "done" /\ "calculate_distances_to_relaves" \in invoked

\* The deposits of the national collection that belong to the named region.
InRegion(name) == { i \in DOMAIN relaves_gdf : MapRegion(relaves_gdf[i].REGION) = name }

(***************************************************************************)
(* C1.  A geocode call that ends in a network failure or in a non-success  *)
(* response is treated as "not found": geocode yields None, the search     *)
(* shows the "location not found" message, and the run does not fail.      *)
(***************************************************************************)
C1_FailureIsNotFound ==
    (Searched /\ (NetworkFailure \/ NonSuccess)) =>
        /\ run_status = "ok"
        /\ results = None
        /\ "error_ubicacion" \in shown

(***************************************************************************)
(* C2.  In a search whose geocoding call returns no candidates, the        *)
(* "location not found" message is shown and neither the region stage nor  *)
(* the ranking stage is invoked.                                           *)
(***************************************************************************)
C2_NoCandidatesStopsPipeline ==
    (Searched /\ NoCandidates) =>
        /\ run_status = "ok"
        /\ results = None
        /\ "error_ubicacion" \in shown
        /\ invoked \cap RegionStages = {}

C2_Witness ==
    Searched /\ NoCandidates /\ "error_ubicacion" \in shown /\ invoked = {"geocode"}

(***************************************************************************)
(* C3.  find_region_for_point returns the first row, in collection order,  *)
(* whose polygon strictly contains the point; for non-overlapping polygons *)
(* that is the region strictly containing the point whenever one exists;   *)
(* and it returns None when the point is outside every polygon.            *)
(***************************************************************************)
C3_RegionResolved ==
    (phase = "done" /\ "find_region_for_point" \in invoked) =>
        LET lat == results[1]
            lon == results[2]
            regs == regiones_gdf
            r == region_encontrada
        IN  /\ r \in 0..Len(regs)
            /\ r # 0 =>
                 /\ InInterior(lat, lon, regs[r].geometry)
                 /\ \A j \in 1..(r - 1) : ~InInterior(lat, lon, regs[j].geometry)
            /\ NonOverlapping(regs) =>
                 \A i \in DOMAIN regs : InInterior(lat, lon, regs[i].geometry) => r = i
            /\ (\A i \in DOMAIN regs : ~InClosure(lat, lon, regs[i].geometry)) => r = 0

C3_Witness ==
    /\ phase = "done" /\ "find_region_for_point" \in invoked
    /\ NonOverlapping(regiones_gdf)
    /\ region_encontrada = 2
    /\ InInterior(results[1], results[2], regiones_gdf[2].geometry)

(***************************************************************************)
(* C4.  For a non-empty collection the output of                           *)
(* calculate_distances_to_relaves is in non-decreasing order of distance,  *)
(* and the distance of its first element is at most the distance of every  *)
(* deposit of the input collection, returned or not.                       *)
(***************************************************************************)
C4_SortedAndNearestFirst ==
    (Ranked /\ Len(relaves_gdf) > 0) =>
        /\ Len(relaves_cercanos) > 0
        /\ \A k \in DOMAIN relaves_cercanos :
             relaves_cercanos[k].distancia = DistTo(relaves_cercanos[k].idx)
        /\ \A k \in 1..(Len(relaves_cercanos) - 1) :
             relaves_cercanos[k].distancia <= relaves_cercanos[k + 1].distancia
        /\ \A i \in DOMAIN relaves_gdf : relaves_cercanos[1].distancia <= DistTo(i)

C4_Witness ==
    /\ Ranked
    /\ Len(relaves_gdf) > Len(relaves_cercanos)
    /\ \E i \in DOMAIN relaves_gdf : PosOf(i) = 0 /\ DistTo(i) > relaves_cercanos[1].distancia
    /\ \E i \in DOMAIN relaves_gdf : DistTo(1) > DistTo(i)

(***************************************************************************)
(* C5, as stated.  Two deposits at the same distance from the query point  *)
(* both appear in the output, in the order they have in the collection.    *)
(***************************************************************************)
C5_TiesStable ==
    Ranked =>
        \A i, j \in DOMAIN relaves_gdf :
            (i < j /\ Equidistant(i, j)) =>
                PosOf(i) # 0 /\ PosOf(j) # 0 /\ PosOf(i) < PosOf(j)

(***************************************************************************)
(* C5, amended.  Two deposits at the same distance from the query point    *)
(* both appear in the output when the collection has at most 10 deposits;  *)
(* with more, one of them is missing only if the output is full and ends   *)
(* at their distance or before it.  Their order in the output is not       *)
(* fixed.                                                                  *)
(***************************************************************************)
C5_TiesKept ==
    Ranked =>
        \A i, j \in DOMAIN relaves_gdf :
            Equidistant(i, j) =>
                /\ Len(relaves_gdf) <= 10 => PosOf(i) # 0 /\ PosOf(j) # 0
                /\ PosOf(i) = 0 =>
                     /\ Len(relaves_cercanos) = 10
                     /\ relaves_cercanos[10].distancia <= DistTo(i)

C5_Witness ==
    /\ Ranked
    /\ \E i, j \in DOMAIN relaves_gdf :
         i < j /\ Equidistant(i, j) /\ PosOf(i) # 0 /\ PosOf(j) # 0 /\ PosOf(j) < PosOf(i)

(***************************************************************************)
(* C6.  calculate_distances_to_relaves never returns more elements than    *)
(* the collection has, never more than 10, and every element returned is   *)
(* an element of the collection (none twice).                              *)
(***************************************************************************)
C6_CappedSubset ==
    Ranked =>
        /\ Len(relaves_cercanos) <= Len(relaves_gdf)
        /\ Len(relaves_cercanos) <= 10
        /\ \A k \in DOMAIN relaves_cercanos :
             /\ relaves_cercanos[k].idx \in DOMAIN relaves_gdf
             /\ relaves_cercanos[k].ID = relaves_gdf[relaves_cercanos[k].idx].ID
             /\ relaves_cercanos[k].geometry =
                  to_crs(relaves_gdf[relaves_cercanos[k].idx].geometry, 32719)
        /\ \A k, l \in DOMAIN relaves_cercanos :
             k # l => relaves_cercanos[k].idx # relaves_cercanos[l].idx

C6_Witness == Ranked /\ Len(relaves_gdf) = 11 /\ Len(relaves_cercanos) = 10

(***************************************************************************)
(* C7.  A search whose address geocodes to a point inside a region with no *)
(* deposits shows the "no deposits" message, renders neither the table nor *)
(* the focused map and does not invoke the ranking, whatever the size of   *)
(* the national collection.                                                *)
(***************************************************************************)
C7_EmptyRegionInformed ==
    (Searched /\ results # None) =>
        \A i \in DOMAIN regiones_gdf :
            ( /\ InInterior(results[1], results[2], regiones_gdf[i].geometry)
              /\ InRegion(regiones_gdf[i].Region) = {} ) =>
                /\ run_status = "ok"
                /\ "warning_sin_relaves" \in shown
                /\ shown \cap {"tabla_cercanos", "mapa_ubicacion"} = {}
                /\ "calculate_distances_to_relaves" \notin invoked

(***************************************************************************)
(* C8.  A search of an address already searched inside the window of the   *)
(* memo makes no outbound call and sees the result of the first search;    *)
(* a search not served from the memo makes exactly one call.               *)
(***************************************************************************)
C8_MemoServesRepeats ==
    Searched =>
        /\ net_calls \in {0, 1}
        /\ repeat_of.repeat =>
             /\ net_calls = 0
             /\ results = repeat_of.value

(***************************************************************************)
(* C9, as stated.  The overview map is rendered on every run of the page,  *)
(* with or without an address; the focused map only in a search.           *)
(***************************************************************************)
C9_OverviewAlwaysOn ==
    /\ (Ran /\ run_status = "ok") => "mapa_general" \in shown
    /\ "mapa_ubicacion" \in shown => Searched

(***************************************************************************)
(* C9, amended.  The overview map is rendered on exactly the runs in which *)
(* no address has been entered, never in a search; the focused map only in *)
(* a search that reached the ranking.                                      *)
(***************************************************************************)
C9_OverviewOnlyWithoutAddress ==
    Ran =>
        /\ "mapa_general" \in shown <=> address = ""
        /\ "mapa_ubicacion" \in shown =>
             address # "" /\ "calculate_distances_to_relaves" \in invoked

C9_Witness ==
    /\ Ran /\ address # "" /\ run_status = "ok"
    /\ "mapa_ubicacion" \in shown
    /\ "mapa_general" \notin shown

(***************************************************************************)
(* C10.  In a search that reaches the focused map, the national row whose  *)
(* coordinates end the line and carry the circle marker is the deposit     *)
(* ranked first (it lies where that deposit lies), and it belongs to the   *)
(* resolved region.                                                        *)
(***************************************************************************)
C10_MarkerIsNearest ==
    (Searched /\ "mapa_ubicacion" \in shown) =>
        /\ relave_cercano_wgs84 \in DOMAIN relaves_gdf
        /\ relaves_gdf_wgs84[relave_cercano_wgs84].geometry =
             relaves_gdf_wgs84[relaves_cercanos[1].idx].geometry
        /\ relaves_gdf_wgs84[relave_cercano_wgs84].Region =
             regiones_gdf[region_encontrada].Region

====
